---- MODULE Spec2Model ----
(***************************************************************************)
(* Model of Dashboard.py: the data-acquisition path (yf.download behind a  *)
(* tenacity retry policy behind functools.lru_cache), the three chart      *)
(* builders and the Dash refresh callback update_charts.                   *)
(*                                                                         *)
(* Symbols are numbered: symbol 1 is the default ticker "aapl".            *)
(* A Series is the sequence of its bars, oldest first; a bar keeps the     *)
(* fields the builders read (date, open, close).  Dates are day numbers.   *)
(***************************************************************************)
EXTENDS Integers, Sequences, FiniteSets, TLC

VARIABLES
    cache,       \* lru_cache of get_cached_data: entries, least recently used first
    th,          \* per thread: position in the running operation and its locals
    calls,       \* number of update_charts invocations so far
    used,        \* history: every key ever accessed, least recently accessed first
    failedKeys   \* history: keys whose latest get_cached_data call raised

vars == <<cache, th, calls, used, failedKeys>>

(***************************** bounds **************************************)
NSymbols == 2      \* ticker symbols the user types in Spec and SpecConc
MaxCalls == 2      \* update_charts invocations in one behaviour
MaxDays == 3       \* largest integer horizon typed into 'prediction-days'

(************************ program constants ********************************)
maxsize == 128              \* @lru_cache(maxsize=128)
MaxAttempts == 5            \* stop_after_attempt(5)
Multiplier == 1             \* wait_exponential(multiplier=1, ...)
WaitMin == 4                \* wait_exponential(..., min=4, ...)
WaitMax == 60               \* wait_exponential(..., max=60)
DefaultSymbol == 1          \* symbol = "aapl"
DefaultPredictionDays == 10 \* prediction_days = 10

Threads == {"t1", "t2"}
MainThread == "t1"          \* runs the module body, then serves callbacks

Min(a, b) == IF a < b THEN a ELSE b
Max(a, b) == IF a > b THEN a ELSE b

RECURSIVE Sum(_)
Sum(s) == IF s = <<>> THEN 0 ELSE Head(s) + Sum(Tail(s))

(***************************** data ****************************************)
Bar(d, o, c) == [date |-> d, open |-> o, close |-> c]

\* What yf.download can hand back: nothing (unknown symbol) or bars.
Downloads ==
    { <<>>,
      << Bar(5, 98, 99), Bar(6, 99, 100) >> }

\* Exception classes yf.download can raise.
ErrTypes == {"ConnectionError", "Timeout"}

NoExc == [type |-> "none", attempt |-> 0, wraps |-> "none"]
Exc(ty) == [type |-> ty, attempt |-> 0, wraps |-> "none"]

\* ticker.info: with both fields, without regularMarketPrice, with
\* regularMarketPrice but without regularMarketOpen, or the lookup raises.
Quotes == {"full", "noPrice", "noOpen", "error"}
QuoteSnapshot == [open |-> 149, price |-> 150]

\* Values of the 'prediction-days' input: a number (int or float, the float
\* given in halves), a text, or nothing.
Horizons ==
    { [kind |-> "int", n |-> k] : k \in -1..MaxDays }
    \cup { [kind |-> "float", n |-> 3], [kind |-> "float", n |-> -1],
           [kind |-> "text", n |-> 2], [kind |-> "badtext", n |-> 0],
           [kind |-> "none", n |-> 0] }

(***************************** figures *************************************)
Unset == [kind |-> "unset", xs |-> <<>>, ys |-> <<>>, src |-> "none"]
EmptyFigure == [kind |-> "empty", xs |-> <<>>, ys |-> <<>>, src |-> "none"]

\* go.Indicator(delta.reference = open_price, value = current_price)
IndicatorFigure(open_price, current_price, from) ==
    [kind |-> "indicator", xs |-> <<open_price>>, ys |-> <<current_price>>,
     src |-> from]

\* go.Candlestick over data['Date'] / data['Close'] (and the volume trace)
CandlestickFigure(data) ==
    [kind |-> "candlestick",
     xs |-> [i \in 1..Len(data) |-> data[i].date],
     ys |-> [i \in 1..Len(data) |-> data[i].close],
     src |-> "series"]

\* Mutant of Range1: range(prediction_days), starting at 0.
Range0(n) == IF n >= 1 THEN [i \in 1..n |-> i - 1] ELSE <<>>

\* range(1, prediction_days + 1) as a sequence
Range1(n) == IF n >= 1 THEN [i \in 1..n |-> i] ELSE <<>>

\* [current_date + timedelta(days=i) for i in range(1, prediction_days + 1)]
prediction_dates(data, prediction_days) ==
    LET current_date == data[Len(data)].date
        r == Range1(prediction_days)
    IN  [j \in 1..Len(r) |-> current_date + r[j]]

\* [data['Close'].iloc[-1] + i for i in range(1, prediction_days + 1)]
predicted_prices(data, prediction_days) ==
    LET r == Range1(prediction_days)
    IN  [j \in 1..Len(r) |-> data[Len(data)].close + r[j]]

PredictionFigure(data, prediction_days) ==
    [kind |-> "prediction",
     xs |-> prediction_dates(data, prediction_days),
     ys |-> predicted_prices(data, prediction_days),
     src |-> "series"]

(************************ int(prediction_days) *****************************)
\* int() truncates a float toward zero, parses a numeric text, raises
\* ValueError on any other text and TypeError on None.
int(h) ==
    CASE h.kind = "int"     -> [ok |-> TRUE, val |-> h.n, exc |-> NoExc]
      [] h.kind = "float"   -> [ok |-> TRUE,
                                val |-> IF h.n >= 0 THEN h.n \div 2
                                        ELSE -((-h.n) \div 2),
                                exc |-> NoExc]
      [] h.kind = "text"    -> [ok |-> TRUE, val |-> h.n, exc |-> NoExc]
      [] h.kind = "badtext" -> [ok |-> FALSE, val |-> 0, exc |-> Exc("ValueError")]
      [] OTHER              -> [ok |-> FALSE, val |-> 0, exc |-> Exc("TypeError")]

(************************** functools.lru_cache ****************************)
\* functools._make_key: the positional arguments, then a mark and the
\* keyword items in call order.
make_key(args, kwds) == [args |-> args, kwds |-> kwds]
NoKey == make_key(<<>>, <<>>)

\* get_cached_data(symbol, period, interval)
PositionalKey(symbol, period, interval) ==
    make_key(<<symbol, period, interval>>, <<>>)
\* get_cached_data(symbol, period=..., interval=...)
KeywordKey(symbol, period, interval) ==
    make_key(<<symbol>>, << <<"period", period>>, <<"interval", interval>> >>)

\* The (symbol, period, interval) the wrapped function receives for a key.
Triple(k) ==
    IF k.kwds = <<>> THEN k.args
    ELSE <<k.args[1], k.kwds[1][2], k.kwds[2][2]>>

Keys(c) == { c[i].key : i \in 1..Len(c) }
IndexOf(c, k) == CHOOSE i \in 1..Len(c) : c[i].key = k
Lookup(c, k) == c[IndexOf(c, k)].val
RemoveAt(c, i) == SubSeq(c, 1, i - 1) \o SubSeq(c, i + 1, Len(c))
Resident(c, triple) == \E i \in 1..Len(c) : Triple(c[i].key) = triple

\* Mutant of cache_raise: the failure is memoized like a result.
cache_raise_memo(c, k) == Append(c, [key |-> k, val |-> <<>>])

\* The wrapped call raised: the exception passes through the wrapper before
\* anything is stored.
cache_raise(c, k) == c

\* Mutant of cache_hit: a hit leaves the order alone (first in, first out).
cache_hit_fifo(c, k) == c

\* A hit moves the entry's link to the most recently used end.
cache_hit(c, k) ==
    LET i == IndexOf(c, k) IN Append(RemoveAt(c, i), c[i])

\* After the wrapped call returned: the key may have been added meanwhile
\* (keep the stored entry); a full cache drops its oldest link first.
cache_store(c, k, v) ==
    IF k \in Keys(c) THEN c
    ELSE IF Len(c) >= maxsize THEN Append(Tail(c), [key |-> k, val |-> v])
    ELSE Append(c, [key |-> k, val |-> v])

\* History of accesses: k becomes the most recently accessed key.
Touch(u, k) == Append(SelectSeq(u, LAMBDA x : x # k), k)

(****************************** tenacity ***********************************)
\* Mutant of wait_exponential: the wait starts at min and doubles.
wait_doubling(attempt_number) ==
    Min(WaitMin * 2 ^ (attempt_number - 1), WaitMax)

\* wait_exponential.__call__: multiplier * 2 ** (attempt_number - 1),
\* clamped to [min, max].
wait_exponential(attempt_number) ==
    Max(Max(0, WaitMin), Min(Multiplier * 2 ^ (attempt_number - 1), WaitMax))

\* stop_after_attempt(5)
stop_after_attempt(attempt_number) == attempt_number >= MaxAttempts

\* Mutant of retry_error: reraise=True, the attempt's exception itself.
retry_error_reraise(e) == e

\* reraise is left at its default False: when the policy stops, Retrying
\* raises RetryError(last_attempt) from the attempt's own exception.
retry_error(e) == [type |-> "RetryError", attempt |-> e.attempt, wraps |-> e.type]

(***************************** thread state ********************************)
NoRet == [status |-> "none", figs |-> <<>>]

Idle ==
    [pc |-> "idle", op |-> "startup", symbol |-> DefaultSymbol,
     prediction_days |-> [kind |-> "int", n |-> DefaultPredictionDays],
     quote |-> "none",
     caller |-> "none", key |-> NoKey, before |-> <<>>, gcd |-> "none",
     attempt |-> 0, slept |-> <<>>, lastExc |-> NoExc, caught |-> NoExc,
     data |-> <<>>,
     nfetch |-> 0, cold |-> FALSE,
     metric |-> Unset, chart |-> Unset, pred |-> Unset, ret |-> NoRet]

\* The module body has run to app.run_server without raising.
serving == th[MainThread].pc # "crashed"
           /\ (th[MainThread].op # "startup" \/ th[MainThread].pc = "idle")

\* Mutant of update_charts_except: the figures built so far are returned.
update_charts_except_partial(r, e) ==
    [r EXCEPT !.pc = "done", !.caught = e,
              !.ret = [status |-> "returned",
                       figs |-> <<IF r.metric = Unset THEN EmptyFigure ELSE r.metric,
                                  IF r.chart = Unset THEN EmptyFigure ELSE r.chart,
                                  EmptyFigure>>]]

\* except Exception as e: return go.Figure(), go.Figure(), go.Figure()
update_charts_except(r, e) ==
    [r EXCEPT !.pc = "done", !.caught = e,
              !.ret = [status |-> "returned",
                       figs |-> <<EmptyFigure, EmptyFigure, EmptyFigure>>]]

\* An exception leaves a builder: the callback's handler takes it; in the
\* module body nothing does and the process ends.
Raise(r, e) ==
    IF r.op = "update" THEN update_charts_except(r, e)
    ELSE [r EXCEPT !.pc = "crashed", !.caught = e]

\* return price_metric, price_chart, prediction_fig
update_charts_return(r) ==
    [r EXCEPT !.pc = "done",
              !.ret = [status |-> "returned", figs |-> <<r.metric, r.chart, r.pred>>]]

\* Control after a builder returned its figure.
Advance(r) ==
    IF r.op = "startup"
    THEN CASE r.pc = "candle_fig" -> [r EXCEPT !.pc = "indicator"]
           [] r.pc \in {"indicator", "indicator_fig"} -> [r EXCEPT !.pc = "predict"]
           [] OTHER -> Idle
    ELSE CASE r.pc \in {"indicator", "indicator_fig"} -> [r EXCEPT !.pc = "candle"]
           [] r.pc = "candle_fig" -> [r EXCEPT !.pc = "predict"]
           [] OTHER -> update_charts_return(r)

\* A builder calls get_cached_data with key k.
Call(r, who, k) ==
    [r EXCEPT !.pc = "lookup", !.caller = who, !.key = k, !.before = cache,
              !.gcd = "none", !.attempt = 0, !.slept = <<>>, !.data = <<>>]

Set(t, r) == th' = [th EXCEPT ![t] = r]

(******************************* actions ***********************************)
\* The callback: prediction_days = int(prediction_days), then the three
\* builders.
update_charts(t, symbol, prediction_days) ==
    /\ serving
    /\ th[t].pc = "idle"
    /\ calls < MaxCalls
    /\ calls' = calls + 1
    /\ LET conv == int(prediction_days)
           r == [Idle EXCEPT !.op = "update", !.symbol = symbol,
                             !.prediction_days = prediction_days,
                             !.cold = ~Resident(cache, <<symbol, "1y", "1d">>)]
       IN  Set(t, IF conv.ok
                  THEN [r EXCEPT !.pc = "indicator",
                                 !.prediction_days = [kind |-> "int", n |-> conv.val]]
                  ELSE update_charts_except(r, conv.exc))
    /\ UNCHANGED <<cache, used, failedKeys>>

\* Mutant of has_regularMarketPrice: the test asks for regularMarketOpen
\* and the price.
has_both_fields(q) == q = "full"

\* if 'regularMarketPrice' in info
has_regularMarketPrice(q) == q \in {"full", "noOpen"}

\* price_indicator up to the choice of the price source.
price_indicator(t) ==
    /\ th[t].pc = "indicator"
    /\ \E q \in Quotes :
         LET r == [th[t] EXCEPT !.quote = q] IN
         Set(t, CASE q = "error" -> Raise(r, Exc("QuoteError"))
                  [] q # "error" /\ has_regularMarketPrice(q) ->
                       IF q = "noOpen" THEN Raise(r, Exc("KeyError"))
                       ELSE Advance([r EXCEPT !.metric =
                           IndicatorFigure(QuoteSnapshot.open, QuoteSnapshot.price, "quote")])
                  [] OTHER -> Call(r, "indicator", KeywordKey(r.symbol, "1d", "1d")))
    /\ UNCHANGED <<cache, calls, used, failedKeys>>

\* price_indicator's else branch after get_cached_data returned.
price_indicator_fallback(t) ==
    /\ th[t].pc = "indicator_fig"
    /\ LET r == th[t] IN
       Set(t, IF r.data = <<>> THEN Raise(r, Exc("IndexError"))
              ELSE Advance([r EXCEPT !.metric =
                       IndicatorFigure(r.data[1].open, r.data[Len(r.data)].close, "series")]))
    /\ UNCHANGED <<cache, calls, used, failedKeys>>

\* candlestick_chart(symbol, "1y", "1d"): the positional call.
candlestick_chart(t) ==
    /\ th[t].pc = "candle"
    /\ Set(t, Call(th[t], "candle", PositionalKey(th[t].symbol, "1y", "1d")))
    /\ UNCHANGED <<cache, calls, used, failedKeys>>

\* The figure; on an empty frame reset_index may or may not yield a 'Date'
\* column, depending on the provider library.
candlestick_figure(t) ==
    /\ th[t].pc = "candle_fig"
    /\ LET r == th[t] IN
       \E hasDate \in BOOLEAN :
         /\ (r.data # <<>>) => hasDate
         /\ Set(t, IF hasDate THEN Advance([r EXCEPT !.chart = CandlestickFigure(r.data)])
                   ELSE Raise(r, Exc("KeyError")))
    /\ UNCHANGED <<cache, calls, used, failedKeys>>

\* prediction_chart(symbol, prediction_days): the keyword call.
prediction_chart(t) ==
    /\ th[t].pc = "predict"
    /\ Set(t, Call(th[t], "predict", KeywordKey(th[t].symbol, "1y", "1d")))
    /\ UNCHANGED <<cache, calls, used, failedKeys>>

prediction_figure(t) ==
    /\ th[t].pc = "predict_fig"
    /\ LET r == th[t] IN
       Set(t, IF r.data = <<>> THEN Raise(r, Exc("IndexError"))
              ELSE Advance([r EXCEPT !.pred = PredictionFigure(r.data, r.prediction_days.n)]))
    /\ UNCHANGED <<cache, calls, used, failedKeys>>

FigStage(who) ==
    CASE who = "indicator" -> "indicator_fig"
      [] who = "candle"    -> "candle_fig"
      [] OTHER             -> "predict_fig"

\* get_cached_data returns to the builder; the retry state of the call is
\* gone with it.
Return(r, how, result) ==
    [r EXCEPT !.pc = FigStage(r.caller), !.gcd = how, !.data = result,
              !.attempt = 0, !.slept = <<>>, !.before = <<>>]

\* The lru_cache wrapper before the wrapped call: a hit returns the stored
\* result, a miss goes on to fetch_data.
get_cached_data(t) ==
    /\ th[t].pc = "lookup"
    /\ LET r == th[t] IN
       IF r.key \in Keys(cache)
       THEN /\ cache' = cache_hit(cache, r.key)
            /\ used' = Touch(used, r.key)
            /\ Set(t, Return(r, "hit", Lookup(cache, r.key)))
       ELSE /\ Set(t, [r EXCEPT !.pc = "attempt", !.attempt = 1, !.slept = <<>>,
                                !.nfetch = IF Triple(r.key) = <<r.symbol, "1y", "1d">>
                                           THEN r.nfetch + 1 ELSE r.nfetch])
            /\ UNCHANGED <<cache, used>>
    /\ UNCHANGED <<calls, failedKeys>>

\* One attempt of the retried fetch_data: yf.download returns or raises;
\* after a raise the policy either stops or sleeps and tries again.
fetch_data(t) ==
    /\ th[t].pc = "attempt"
    /\ LET r == th[t] IN
       \/ \E d \in Downloads :
            /\ Set(t, [r EXCEPT !.pc = "store", !.data = d])
            /\ UNCHANGED <<cache, failedKeys>>
       \/ \E ty \in ErrTypes :
            LET e == [type |-> ty, attempt |-> r.attempt, wraps |-> "none"] IN
            IF stop_after_attempt(r.attempt)
            THEN /\ Set(t, Raise([r EXCEPT !.gcd = "raised", !.lastExc = e],
                                  retry_error(e)))
                 /\ cache' = cache_raise(cache, r.key)
                 /\ failedKeys' = failedKeys \cup {r.key}
            ELSE /\ cache' = cache
                 /\ Set(t, [r EXCEPT !.attempt = r.attempt + 1,
                                     !.slept = Append(r.slept, wait_exponential(r.attempt))])
                 /\ UNCHANGED failedKeys
    /\ UNCHANGED <<calls, used>>

\* The lru_cache wrapper after the wrapped call returned.
lru_store(t) ==
    /\ th[t].pc = "store"
    /\ LET r == th[t] IN
       /\ cache' = cache_store(cache, r.key, r.data)
       /\ used' = IF r.key \in Keys(cache) THEN used ELSE Touch(used, r.key)
       /\ failedKeys' = failedKeys \ {r.key}
       /\ Set(t, Return(r, "stored", r.data))
    /\ UNCHANGED calls

\* The callback's return value goes to the browser; its locals are gone.
respond(t) ==
    /\ th[t].pc = "done"
    /\ Set(t, Idle)
    /\ UNCHANGED <<cache, calls, used, failedKeys>>

Step(t) ==
    \/ respond(t)
    \/ price_indicator(t)
    \/ price_indicator_fallback(t)
    \/ candlestick_chart(t)
    \/ candlestick_figure(t)
    \/ prediction_chart(t)
    \/ prediction_figure(t)
    \/ get_cached_data(t)
    \/ fetch_data(t)
    \/ lru_store(t)

(**************************** specifications *******************************)
Symbols == 1..NSymbols

\* The module body: candlestick_chart, price_indicator, prediction_chart
\* for "aapl", run by the main thread on an empty cache.
Init ==
    /\ cache = <<>>
    /\ th = [t \in Threads |->
               IF t = MainThread THEN [Idle EXCEPT !.pc = "candle"] ELSE Idle]
    /\ calls = 0
    /\ used = <<>>
    /\ failedKeys = {}

\* With callbacks served one at a time it does not matter which thread
\* serves them.
SeqThreads == {MainThread}

\* A valid and an invalid horizon, for the specifications that vary other
\* things.
FewHorizons == { [kind |-> "int", n |-> 1], [kind |-> "badtext", n |-> 0] }

AllIdle == \A u \in Threads : th[u].pc = "idle"

\* Callbacks served one at a time.
Next ==
    \/ \E t \in SeqThreads : Step(t)
    \/ \E t \in SeqThreads, s \in Symbols, h \in Horizons :
         AllIdle /\ update_charts(t, s, h)

Spec == Init /\ [][Next]_vars

\* The cache after the module body and the refreshes of symbols 2..n, one
\* after the other, each with a full quote and a successful download: the
\* positional and the keyword entry of every symbol, oldest symbol first.
Prefill(n) ==
    [i \in 1..(2 * n) |->
        [key |-> IF i % 2 = 1 THEN PositionalKey((i + 1) \div 2, "1y", "1d")
                 ELSE KeywordKey(i \div 2, "1y", "1d"),
         val |-> << Bar(5, 98, 99), Bar(6, 99, 100) >>]]

\* Callbacks dispatched on both threads with no ordering between them.
ConcNext ==
    \/ \E t \in Threads : Step(t)
    \/ \E t \in Threads, s \in Symbols, h \in FewHorizons : update_charts(t, s, h)

\* Serving starts once the module body has run: here with a full quote and
\* successful downloads for "aapl".
ConcInit ==
    /\ cache = Prefill(1)
    /\ th = [t \in Threads |-> Idle]
    /\ calls = 0
    /\ used = [i \in 1..Len(cache) |-> cache[i].key]
    /\ failedKeys = {}

SpecConc == ConcInit /\ [][ConcNext]_vars

Half == maxsize \div 2
FullSymbols == {1, Half + 1}

\* A cache two entries short of full, or full.
FullInit ==
    /\ \E n \in {Half - 1, Half} : cache = Prefill(n)
    /\ th = [t \in Threads |-> Idle]
    /\ calls = 0
    /\ used = [i \in 1..Len(cache) |-> cache[i].key]
    /\ failedKeys = {}

FullNext ==
    \/ \E t \in SeqThreads : Step(t)
    \/ \E t \in SeqThreads, s \in FullSymbols, h \in FewHorizons :
         AllIdle /\ update_charts(t, s, h)

SpecFull == FullInit /\ [][FullNext]_vars

(******************************* claims ************************************)
InCall(t) == th[t].pc \in {"lookup", "attempt", "store"}
Fetching(t) == th[t].pc \in {"attempt", "store"}
AllEmpty(figs) == figs = <<EmptyFigure, EmptyFigure, EmptyFigure>>
AllPopulated(figs) ==
    /\ figs[1].kind = "indicator"
    /\ figs[2].kind = "candlestick"
    /\ figs[3].kind = "prediction"
EntriesFor(triple) == { i \in 1..Len(cache) : Triple(cache[i].key) = triple }
\* The resident key whose latest access is the oldest.
LeastRecentlyUsed == SelectSeq(used, LAMBDA k : k \in Keys(cache))[1]

\* C1: with calls served one after the other, fetch_data is never running
\* for a (symbol, period, interval) that is resident in the cache: while the
\* triple is resident, get_cached_data answers from the stored Series.
C1_NoFetchWhileResident ==
    \A t \in Threads :
        Fetching(t) => ~Resident(cache, Triple(th[t].key))

\* C2: a refresh for a symbol whose ("1y", "1d") Series was not cached, in
\* which candlestick_chart and prediction_chart both got their Series, issued
\* exactly one fetch_data call for that triple and left one cache entry for it.
C2_OneFetchPerRefresh ==
    \A t \in Threads :
        (/\ th[t].pc = "done"
         /\ th[t].cold
         /\ th[t].ret.figs[2].kind = "candlestick"
         /\ th[t].ret.figs[3].kind = "prediction")
        => /\ th[t].nfetch = 1
           /\ Cardinality(EntriesFor(<<th[t].symbol, "1y", "1d">>)) = 1

\* C3 (state part): the cache holds at most maxsize entries, all with
\* different keys.
C3_Bounded ==
    /\ Len(cache) <= maxsize
    /\ Cardinality(Keys(cache)) = Len(cache)

\* C3 (step part): a key leaves the cache only when a new key is stored
\* into a full cache; then exactly one key leaves, the one whose latest
\* access (hit or insertion) is the oldest, and the key accessed last stays.
C3_EvictsLRU ==
    LET out == Keys(cache) \ Keys(cache')
        in == Keys(cache') \ Keys(cache)
    IN  /\ (Len(cache) < maxsize) => out = {}
        /\ (in = {}) => out = {}
        /\ (Len(cache) = maxsize /\ in # {}) =>
              /\ Cardinality(in) = 1
              /\ out = {LeastRecentlyUsed}
              /\ used[Len(used)] \in Keys(cache) => used[Len(used)] \in Keys(cache')

\* C3: the cache never holds more than 128 keys, and the 129th distinct key
\* evicts exactly the least recently used one, hits counting as uses.
C3_BoundedLRU == []C3_Bounded /\ [][C3_EvictsLRU]_vars

\* C3 witness: the cache is full, the oldest-inserted key (symbol 1,
\* positional) was touched and is still resident, the second-oldest symbol's
\* key was evicted instead.
C3_Witness ==
    /\ Len(cache) = maxsize
    /\ PositionalKey(1, "1y", "1d") \in Keys(cache)
    /\ PositionalKey(2, "1y", "1d") \notin Keys(cache)
    /\ PositionalKey(Half + 1, "1y", "1d") \in Keys(cache)

\* C4 as stated: when the retry policy is exhausted, the exception that
\* leaves get_cached_data is the 5th attempt's own exception.
C4_LastExceptionUnchanged ==
    \A t \in Threads :
        th[t].gcd = "raised" => th[t].caught = th[t].lastExc

\* C4 amended: when the retry policy is exhausted, the exception that leaves
\* get_cached_data is a RetryError that wraps the 5th attempt's exception.
C4_RetryErrorWrapsLast ==
    \A t \in Threads :
        th[t].gcd = "raised" =>
            /\ th[t].lastExc.type \in ErrTypes
            /\ th[t].lastExc.attempt = MaxAttempts
            /\ th[t].caught.type = "RetryError"
            /\ th[t].caught.wraps = th[t].lastExc.type
            /\ th[t].caught.attempt = th[t].lastExc.attempt

\* C4 witness: a refresh ended because get_cached_data raised.
C4_Witness ==
    \E t \in Threads : th[t].gcd = "raised" /\ th[t].pc = "done"

\* C5 as stated: a fetch that succeeds on the 5th attempt has slept four
\* times, the first wait at least 4 s, each later wait double the one before
\* (capped at 60 s), at least 60 s in all.
C5_DoublingBackoff ==
    \A t \in Threads :
        (th[t].pc = "store" /\ th[t].attempt = MaxAttempts) =>
            /\ Len(th[t].slept) = MaxAttempts - 1
            /\ th[t].slept[1] >= WaitMin
            /\ \A i \in 2..Len(th[t].slept) :
                  th[t].slept[i] = Min(2 * th[t].slept[i - 1], WaitMax)
            /\ Sum(th[t].slept) >= 60

\* C5 amended: a fetch that succeeds after k attempts has slept k - 1 times;
\* on the 5th attempt the waits were 4, 4, 4 and 8 seconds, 20 s in all.
C5_BackoffSchedule ==
    \A t \in Threads :
        th[t].pc = "store" =>
            /\ th[t].attempt \in 1..MaxAttempts
            /\ Len(th[t].slept) = th[t].attempt - 1
            /\ th[t].attempt = MaxAttempts =>
                  /\ th[t].slept = <<4, 4, 4, 8>>
                  /\ Sum(th[t].slept) = 20

\* C5 witness: four attempts raised and the 5th returned bars.
C5_Witness ==
    \E t \in Threads :
        th[t].pc = "store" /\ th[t].attempt = MaxAttempts /\ th[t].data # <<>>

\* C6 (state part): after get_cached_data raised, the cache is what it was
\* when the call was made and holds no entry for the call's key.
C6_FailureNotStored ==
    \A t \in Threads :
        th[t].gcd = "raised" =>
            /\ cache = th[t].before
            /\ th[t].key \notin Keys(cache)

\* C6 (step part): a call for a key whose latest call raised misses the
\* cache and starts the retry sequence again at attempt 1 with nothing slept.
C6_RetriesAfresh ==
    \A t \in Threads :
        (th[t].pc = "lookup" /\ th'[t].pc # "lookup" /\ th[t].key \in failedKeys) =>
            /\ th'[t].pc = "attempt"
            /\ th'[t].attempt = 1
            /\ th'[t].slept = <<>>

\* C6: a failed fetch is never cached and the next call for the key retries
\* from the beginning.
C6_NoNegativeCaching == []C6_FailureNotStored /\ [][C6_RetriesAfresh]_vars

\* C6 witness: a call for a key whose previous call raised is on its second
\* attempt of a new retry sequence.
C6_Witness ==
    \E t \in Threads :
        /\ th[t].pc = "attempt"
        /\ th[t].key \in failedKeys
        /\ th[t].attempt = 2

\* C7: update_charts always returns, with three figures that are either the
\* three builders' figures or three empty figures; a horizon int() rejects
\* gives the empty ones.
C7_RefreshAllOrNothing ==
    \A t \in Threads :
        /\ th[t].op = "update" => th[t].pc # "crashed"
        /\ th[t].pc = "done" =>
              /\ th[t].ret.status = "returned"
              /\ Len(th[t].ret.figs) = 3
              /\ AllPopulated(th[t].ret.figs) \/ AllEmpty(th[t].ret.figs)
              /\ AllPopulated(th[t].ret.figs) <=> th[t].caught = NoExc
              /\ th[t].prediction_days.kind \in {"badtext", "none"} => AllEmpty(th[t].ret.figs)

\* C7 witness: a builder raised after the price indicator had been built,
\* and the refresh still returned three empty figures.
C7_Witness ==
    \E t \in Threads :
        /\ th[t].pc = "done"
        /\ th[t].metric.kind = "indicator"
        /\ th[t].chart.kind = "candlestick"
        /\ th[t].caught # NoExc
        /\ AllEmpty(th[t].ret.figs)

\* C8: for a non-empty Series with last close c and last date d and a
\* horizon n, prediction_chart plots max(n, 0) points, the i-th being c + i
\* on day d + i.
C8_Projection ==
    \A t \in Threads :
        (th[t].pc = "done" /\ th[t].pred.kind = "prediction") =>
            LET c == th[t].data[Len(th[t].data)].close
                d == th[t].data[Len(th[t].data)].date
                n == th[t].prediction_days.n
            IN  /\ th[t].data # <<>>
                /\ Len(th[t].pred.ys) = Max(n, 0)
                /\ Len(th[t].pred.xs) = Max(n, 0)
                /\ \A i \in 1..Max(n, 0) :
                      /\ th[t].pred.ys[i] = c + i
                      /\ th[t].pred.xs[i] = d + i

\* C8 witness: last close 100, horizon 3: exactly 101, 102, 103 on the
\* three days after day 6.
C8_Witness ==
    \E t \in Threads :
        /\ th[t].pc = "done"
        /\ th[t].prediction_days.n = 3
        /\ th[t].pred.ys = <<101, 102, 103>>
        /\ th[t].pred.xs = <<7, 8, 9>>

\* C9 as stated: price_indicator never calls get_cached_data and never
\* displays a price taken from a cached Series.
C9_IndicatorBypassesCache ==
    \A t \in Threads :
        /\ ~(InCall(t) /\ th[t].caller = "indicator")
        /\ th[t].metric.src # "series"

\* C9 amended: price_indicator calls get_cached_data only when the quote
\* lacks regularMarketPrice, and then for (symbol, period="1d",
\* interval="1d"); the displayed pair comes from the quote when the field is
\* there and from that Series (first open, last close) when it is not.
C9_IndicatorFallbackOnly ==
    \A t \in Threads :
        /\ ((InCall(t) \/ th[t].pc = "indicator_fig") /\ th[t].caller = "indicator") =>
              /\ th[t].quote = "noPrice"
              /\ th[t].key = KeywordKey(th[t].symbol, "1d", "1d")
        /\ th[t].metric.src = "quote" =>
              /\ th[t].quote = "full"
              /\ th[t].metric.xs = <<QuoteSnapshot.open>>
              /\ th[t].metric.ys = <<QuoteSnapshot.price>>
        /\ th[t].metric.src = "series" =>
              /\ th[t].quote = "noPrice"
              /\ \E d \in Downloads \ {<<>>} :
                    th[t].metric = IndicatorFigure(d[1].open, d[Len(d)].close, "series")

\* C9 witness: the indicator shows first open 98 and last close 100 of a
\* Series it got from get_cached_data.
C9_Witness ==
    \E t \in Threads :
        /\ th[t].metric.src = "series"
        /\ th[t].metric.xs = <<98>>
        /\ th[t].metric.ys = <<100>>

\* C10: with callbacks on two threads, fetch_data is never running twice at
\* once for the same key, and the cache keeps one entry per key and at most
\* 128 entries.
C10_SingleFlight ==
    /\ \A t, u \in Threads :
          (t # u /\ Fetching(t) /\ Fetching(u)) => th[t].key # th[u].key
    /\ Len(cache) <= maxsize
    /\ Cardinality(Keys(cache)) = Len(cache)

====
